---- MODULE Spec2Model ----
(***************************************************************************)
(* Model of the DataSentinel secure code runner                            *)
(* (src/secure_code_runner/runner_service.py): the /execute handler, the   *)
(* sandbox namespace it builds, and the effect of the executed snippet on  *)
(* the objects the namespace hands to it.                                  *)
(*                                                                         *)
(* The handler is an `async def` without any await, so one request is      *)
(* handled from deserialization to response before the next one starts;    *)
(* other requests can be in flight (received, queued) meanwhile.  The      *)
(* model keeps the request being handled (pc, payload, code, df_in, env,   *)
(* response, trace), the objects it works on (heap) and the process-wide   *)
(* state that outlives a request (the imported modules pd, np, scipy, the  *)
(* host, the process itself).                                              *)
(*                                                                         *)
(* The presentation layer (src/app.py) is one Streamlit session: its       *)
(* session state (raw_df, cleaning_plan, cleaned_df), the approval form    *)
(* and the request it posts to the runner.  A None of the code is the      *)
(* empty sequence, a value v is <<v>>.                                     *)
(***************************************************************************)
EXTENDS Integers, Sequences, FiniteSets, TLC

VARIABLES
    queued,     \* requests received and not yet handled
    alive,      \* the service process is running
    redefined,  \* module handles one of whose attributes has been rebound
    stash,      \* value of the attribute `stash` added to the numpy module
    oldConc,    \* the object "old" belongs to a request served concurrently
    hostOps,    \* operations performed on the host by executed code
    pc,         \* position of the request being handled
    payload,    \* request.dataframe_json
    code,       \* request.code_snippet, as a sequence of statements
    df_in,      \* the handler's local df_in
    env,        \* the namespace built for exec (globals and locals alike)
    heap,       \* the dataset objects the handler and the snippet refer to
    response,   \* what the caller receives
    trace,      \* the handler steps this request has gone through
    raw_df,         \* st.session_state.raw_df
    cleaning_plan,  \* st.session_state.cleaning_plan
    cleaned_df,     \* st.session_state.cleaned_df
    ticked,         \* the checkboxes ticked in the form that was submitted
    posted          \* the JSON body of the request the app is waiting on

appvars == <<raw_df, cleaning_plan, cleaned_df, ticked, posted>>

vars == <<queued, alive, redefined, stash, oldConc, hostOps,
          pc, payload, code, df_in, env, heap, response, trace, appvars>>

(***************************************************************************)
(* Bounds                                                                  *)
(***************************************************************************)
MaxRows == 1
MaxQueue == 1

(***************************************************************************)
(* Datasets and their wire form (JSON, orient='records')                   *)
(***************************************************************************)
NA == "NaN"
CellValues == {"v1"}
FillValue == "v0"
Cells == CellValues \cup {NA}
ColLists == {<<"a">>}

RowsOf(cols) ==
    UNION {[1..n -> [1..Len(cols) -> Cells]] : n \in 0..MaxRows}

Datasets ==
    UNION {{[cols |-> c, rows |-> r] : r \in RowsOf(c)} : c \in ColLists}

NoData == [cols |-> <<>>, rows |-> <<>>]

\* A text cell that reads as a date, the timestamp it is read as, and the
\* number that timestamp is written as (date_format 'epoch', milliseconds).
IsoText == "2020-01-01"
Stamp == "Timestamp(2020-01-01)"
Epoch == "1577836800000"

\* keep_default_dates: the column labels read_json treats as date-like.
DateLikeLabels == {"date"}

\* A dataset whose column has a date-like label and holds a date as text.
DateData == [cols |-> <<"date">>, rows |-> << <<IsoText>> >>]

JsonVal(c) == IF c = NA THEN "null" ELSE IF c = Stamp THEN Epoch ELSE c

CellOf(v) == IF v = "null" THEN NA ELSE v

\* DataFrame.to_json(orient='records'): one JSON object per row, the keys in
\* column order; a frame without rows is the empty list.
ToWire(d) ==
    [form |-> "records",
     recs |-> [i \in 1..Len(d.rows) |->
                 [j \in 1..Len(d.cols) |-> <<d.cols[j], JsonVal(d.rows[i][j])>>]]]

\* Series.to_json(orient='records'): the list of the values.
SeriesWire(d) ==
    [form |-> "values",
     recs |-> [i \in 1..Len(d.rows) |-> << <<"", JsonVal(d.rows[i][1])>> >>]]

Malformed == [form |-> "malformed", recs |-> <<>>]

Payloads == {ToWire(d) : d \in Datasets} \cup {Malformed}

RECURSIVE KeysOf(_, _)
KeysOf(recs, seen) ==
    IF recs = <<>> THEN seen
    ELSE LET rec == Head(recs)
             new == SelectSeq([j \in 1..Len(rec) |-> rec[j][1]],
                              LAMBDA k : \A i \in 1..Len(seen) : seen[i] # k)
         IN  KeysOf(Tail(recs), seen \o new)

Lookup(rec, k) ==
    IF \E j \in 1..Len(rec) : rec[j][1] = k
    THEN CellOf(rec[CHOOSE j \in 1..Len(rec) : rec[j][1] = k][2])
    ELSE NA

\* pd.read_json(..., orient='records') of a well-formed list of records: the
\* columns are the keys in order of first appearance, a null or an absent key
\* reads as missing, and a column with a date-like label whose cells all read
\* as dates becomes a column of timestamps (convert_dates defaults to True).
FromWire(w) ==
    LET cols == KeysOf(w.recs, <<>>)
        raw == [i \in 1..Len(w.recs) |->
                  [j \in 1..Len(cols) |-> Lookup(w.recs[i], cols[j])]]
        dates(j) == /\ cols[j] \in DateLikeLabels
                    /\ \A i \in 1..Len(raw) : raw[i][j] \in {NA, IsoText, Epoch}
    IN  [cols |-> cols,
         rows |-> [i \in 1..Len(raw) |->
                     [j \in 1..Len(cols) |->
                        IF dates(j) /\ raw[i][j] # NA THEN Stamp
                        ELSE raw[i][j]]]]

\* A read_json that accepts whatever it is given.
ReadJsonNeverRaises(w) == FALSE

\* pd.read_json raises on a payload that is not a well-formed list of records.
ReadJsonRaises(w) == w.form # "records"

FillNa(d) ==
    [d EXCEPT !.rows = [i \in 1..Len(d.rows) |->
        [j \in 1..Len(d.cols) |->
            IF d.rows[i][j] = NA THEN FillValue ELSE d.rows[i][j]]]]

DropNa(d) ==
    [d EXCEPT !.rows = SelectSeq(d.rows,
        LAMBDA r : \A j \in 1..Len(r) : r[j] # NA)]

\* df['a']: the first column (every dataset of the model names it "a").
ColumnA(d) ==
    [cols |-> <<"a">>, rows |-> [i \in 1..Len(d.rows) |-> <<d.rows[i][1]>>]]

(***************************************************************************)
(* The sandbox namespace                                                   *)
(***************************************************************************)
\* safe_builtins: the names the snippet can resolve as builtins.
SafeBuiltinNames ==
    {"print", "range", "len", "str", "int", "float", "list", "dict", "set",
     "tuple", "abs", "max", "min", "sum", "round", "True", "False", "None"}

\* The library handles bound in safe_globals: the imported module objects
\* themselves, the same objects for every request.
Handles == {"pd", "np", "scipy"}

\* Values a name can be bound to, as far as the handler tells them apart:
\* a DataFrame or a Series (both refer to a dataset object of the heap), an
\* int, a function object carrying a to_json attribute, or no binding.
ObjIds == {"in", "cp", "nw", "old"}
NoRef == "none"
Absent == [kind |-> "absent", ref |-> NoRef]
Frame(o) == [kind |-> "frame", ref |-> o]
SeriesOf(o) == [kind |-> "series", ref |-> o]
IntVal == [kind |-> "int", ref |-> NoRef]
FuncVal == [kind |-> "func", ref |-> NoRef]

NoEnv == [built |-> FALSE, df |-> Absent, extra |-> {}]

EmptyHeap == [o \in ObjIds |-> NoData]

\* create_execution_environment: df is bound to a copy of df_in (a new
\* object holding the same data), the builtins and the handles are bound
\* under their names, and nothing else is.
\* A builder that binds df to df_in itself instead of a copy.
CreateEnvironmentNoCopy(dfin, h) ==
    [env  |-> [built |-> TRUE, df |-> Frame(dfin.ref), extra |-> {}],
     heap |-> h]

create_execution_environment(dfin, h) ==
    [env  |-> [built |-> TRUE, df |-> Frame("cp"), extra |-> {}],
     heap |-> [h EXCEPT !["cp"] = h[dfin.ref]]]

\* The names exec can resolve in a namespace: those of safe_globals, what the
\* code has bound since, and the builtins.
GlobalNames(ns) ==
    {"__builtins__"} \cup Handles \cup ns.extra
        \cup (IF ns.df.kind = "absent" THEN {} ELSE {"df"})

Resolves(n, ns) == n \in GlobalNames(ns) \/ n \in SafeBuiltinNames

(***************************************************************************)
(* Snippets: sequences of statements.  Each statement stands for the       *)
(* Python text given with it; StmtText is that text cut into lexemes       *)
(* and StmtUses the names it resolves in the namespace when it runs.       *)
(***************************************************************************)
StmtIds ==
    {"fillna",      \* df.fillna('v0', inplace=True)
     "dropna",      \* df = df.dropna()
     "toseries",    \* df = df['a']
     "bindint",     \* df = 5
     "deldf",       \* del df
     "divzero",     \* x = 1/0
     "bindx",       \* x = len(df)
     "import",      \* import os
     "importtab",   \* import<TAB>os
     "dunder",      \* df.__class__
     "eval",        \* eval('1')
     "open",        \* open('/etc/passwd')
     "tocsv",       \* df.to_csv('/tmp/out.csv')
     "sysexit",     \* pd.io.common.os.sys.exit(1)
     "setpd",       \* pd.read_csv = None
     "stash",       \* np.stash = df
     "unstash",     \* df = np.stash
     "duck"}        \* f = lambda: 0 ; f.to_json = lambda orient: None ; df = f

StmtText(s) ==
    CASE s = "fillna"    -> <<"df", ".", "fillna", "(", "'v0'", ",", " ", "inplace", "=", "True", ")">>
      [] s = "dropna"    -> <<"df", "=", "df", ".", "dropna", "(", ")">>
      [] s = "toseries"  -> <<"df", "=", "df", "[", "'a'", "]">>
      [] s = "bindint"   -> <<"df", "=", "5">>
      [] s = "deldf"     -> <<"del", " ", "df">>
      [] s = "divzero"   -> <<"x", "=", "1", "/", "0">>
      [] s = "bindx"     -> <<"x", "=", "len", "(", "df", ")">>
      [] s = "import"    -> <<"import", " ", "os">>
      [] s = "importtab" -> <<"import", "<TAB>", "os">>
      [] s = "dunder"    -> <<"df", ".", "_", "_", "class", "_", "_">>
      [] s = "eval"      -> <<"eval", "(", "'1'", ")">>
      [] s = "open"      -> <<"open", "(", "'/etc/passwd'", ")">>
      [] s = "tocsv"     -> <<"df", ".", "to", "_", "csv", "(", "'/tmp/out.csv'", ")">>
      [] s = "sysexit"   -> <<"pd", ".", "io", ".", "common", ".", "os", ".", "sys", ".", "exit", "(", "1", ")">>
      [] s = "setpd"     -> <<"pd", ".", "read", "_", "csv", "=", "None">>
      [] s = "stash"     -> <<"np", ".", "stash", "=", "df">>
      [] s = "unstash"   -> <<"df", "=", "np", ".", "stash">>
      [] s = "duck"      -> <<"f", "=", "lambda", ":", "0", "<NL>",
                              "f", ".", "to", "_", "json", "=", "lambda", " ", "orient", ":", "None", "<NL>",
                              "df", "=", "f">>

StmtUses(s) ==
    CASE s \in {"dropna", "toseries", "deldf", "dunder", "tocsv"} -> {"df"}
      [] s = "bindx"                   -> {"len", "df"}
      [] s = "fillna"                  -> {"df", "True"}
      [] s \in {"import", "importtab"} -> {"__import__"}
      [] s = "eval"                    -> {"eval"}
      [] s = "open"                    -> {"open"}
      [] s = "sysexit"                 -> {"pd"}
      [] s = "setpd"                   -> {"pd", "None"}
      [] s = "stash"                   -> {"np", "df"}
      [] s = "unstash"                 -> {"np"}
      [] OTHER                         -> {}

\* The snippets requests are drawn from: the empty one, every single
\* statement, and two-statement ones in which the second statement meets what
\* the first one left (a deleted or rebound df, a raised exception, a stashed
\* object, a guarded line).
TwoStatementSnippets ==
    {<<"deldf", "fillna">>, <<"divzero", "tocsv">>, <<"stash", "fillna">>,
     <<"fillna", "dropna">>, <<"bindint", "bindx">>, <<"fillna", "import">>,
     <<"unstash", "fillna">>, <<"toseries", "tocsv">>}

Snippets == {<<>>} \cup {<<s>> : s \in StmtIds} \cup TwoStatementSnippets

RECURSIVE CodeText(_)
\* The text of a snippet: its statements, one per line.
CodeText(c) ==
    IF c = <<>> THEN <<>>
    ELSE IF Len(c) = 1 THEN StmtText(c[1])
    ELSE StmtText(c[1]) \o <<"<NL>">> \o CodeText(Tail(c))

(***************************************************************************)
(* Static security check                                                   *)
(***************************************************************************)
FORBIDDEN_KEYWORDS == { <<"import", " ">>, <<"_", "_">> }

\* keyword in text: the keyword occurs as a contiguous part of the text.
Contains(text, kw) ==
    \E i \in 1..(Len(text) - Len(kw) + 1) : SubSeq(text, i, i + Len(kw) - 1) = kw

\* A guard that looks for "import " only.
GuardRejectsImportOnly(c) == Contains(CodeText(c), <<"import", " ">>)

\* any(keyword in request.code_snippet for keyword in FORBIDDEN_KEYWORDS)
GuardRejects(c) == \E kw \in FORBIDDEN_KEYWORDS : Contains(CodeText(c), kw)

(***************************************************************************)
(* exec(code_snippet, globals, locals)                                     *)
(***************************************************************************)
\* The state a running snippet reads and writes: its namespace, the heap, the
\* module objects, the host; exc is the exception that ended it, if any.
Raise(st, cls, m) == [st EXCEPT !.exc = cls, !.msg = m]

HasData(b) == b.kind \in {"frame", "series"}

\* One statement, run in state st.
ExecStmt(s, st) ==
    LET df == st.ns.df IN
    IF \E n \in StmtUses(s) : ~Resolves(n, st.ns)
    THEN IF "__import__" \in StmtUses(s)
         THEN Raise(st, "Exception", "__import__ not found")
         ELSE Raise(st, "Exception", "name is not defined")
    ELSE CASE s = "fillna" ->
                IF df.kind = "frame" \/ df.kind = "series"
                THEN [st EXCEPT !.heap[df.ref] = FillNa(@)]
                ELSE Raise(st, "Exception", "object has no attribute 'fillna'")
           [] s = "dropna" ->
                IF df.kind = "frame"
                THEN [st EXCEPT !.heap["nw"] = DropNa(st.heap[df.ref]),
                                !.ns.df = Frame("nw")]
                ELSE IF df.kind = "series"
                THEN [st EXCEPT !.heap["nw"] = DropNa(st.heap[df.ref]),
                                !.ns.df = SeriesOf("nw")]
                ELSE Raise(st, "Exception", "object has no attribute 'dropna'")
           [] s = "toseries" ->
                IF df.kind = "frame"
                THEN [st EXCEPT !.heap["nw"] = ColumnA(st.heap[df.ref]),
                                !.ns.df = SeriesOf("nw")]
                ELSE IF df.kind = "series"
                THEN Raise(st, "Exception", "'a'")
                ELSE Raise(st, "Exception", "object is not subscriptable")
           [] s = "bindint" -> [st EXCEPT !.ns.df = IntVal]
           [] s = "deldf"   -> [st EXCEPT !.ns.df = Absent]
           [] s = "divzero" -> Raise(st, "Exception", "division by zero")
           [] s = "bindx"   ->
                IF HasData(df)
                THEN [st EXCEPT !.ns.extra = @ \cup {"x"}]
                ELSE Raise(st, "Exception", "object has no len()")
           [] s = "dunder"  -> st
           [] s = "tocsv"   ->
                IF HasData(df)
                THEN [st EXCEPT !.hostOps = @ \cup {"file_write"}]
                ELSE Raise(st, "Exception", "object has no attribute 'to_csv'")
           [] s = "sysexit"  -> Raise(st, "SystemExit", "1")
           [] s = "setpd"    -> [st EXCEPT !.redefined = @ \cup {"pd"}]
           [] s = "stash"    -> [st EXCEPT !.stash = df]
           [] s = "unstash"  ->
                IF st.stash.kind = "absent"
                THEN Raise(st, "Exception", "module 'numpy' has no attribute 'stash'")
                ELSE [st EXCEPT !.ns.df = st.stash]
           [] s = "duck"     -> [st EXCEPT !.ns.df = FuncVal,
                                           !.ns.extra = @ \cup {"f"}]
           [] OTHER          -> st

RECURSIVE ExecCode(_, _)
\* The statements run in order; the first exception ends the run.
ExecCode(c, st) ==
    IF c = <<>> \/ st.exc # "none" THEN st
    ELSE ExecCode(Tail(c), ExecStmt(Head(c), st))

(***************************************************************************)
(* Responses                                                               *)
(***************************************************************************)
NoResponse == [status |-> 0, success |-> <<>>, cleaned |-> <<>>,
               error |-> <<>>, detail |-> <<>>]

\* An exception that reaches the framework as a plain server fault.
PlainServerFault(m) ==
    [status |-> 500, success |-> <<>>, cleaned |-> <<>>,
     error |-> <<>>, detail |-> <<>>]

\* raise HTTPException(status_code=400, detail=...)
HTTPException(m) ==
    [status |-> 400, success |-> <<>>, cleaned |-> <<>>,
     error |-> <<>>, detail |-> <<m>>]

\* ExecutionResponse(cleaned_dataframe_json, success, error_message); a field
\* that is None is the empty sequence.
ExecutionResponse(json, ok, err) ==
    [status |-> 200, success |-> <<ok>>, cleaned |-> json,
     error |-> err, detail |-> <<>>]

\* A marshaller that serializes the frame the request came with, whatever
\* df is bound to.
ToJsonOfInput(b, h) == [exc |-> "none", json |-> <<ToWire(h["in"])>>]

\* df_out.to_json(orient='records') for the value found under df.
ToJson(b, h) ==
    CASE b.kind = "frame"  -> [exc |-> "none", json |-> <<ToWire(h[b.ref])>>]
      [] b.kind = "series" -> [exc |-> "none", json |-> <<SeriesWire(h[b.ref])>>]
      [] b.kind = "func"   -> [exc |-> "none", json |-> <<>>]
      [] OTHER             -> [exc |-> "Exception", json |-> <<>>]

(***************************************************************************)
(* The /execute handler, step by step                                      *)
(***************************************************************************)
InTrace(step) == \E i \in 1..Len(trace) : trace[i] = step

RunnerInit ==
    /\ queued = 0
    /\ alive = TRUE
    /\ redefined = {}
    /\ stash = Absent
    /\ oldConc = FALSE
    /\ hostOps = {}
    /\ pc = "idle"
    /\ payload = Malformed
    /\ code = <<>>
    /\ df_in = Absent
    /\ env = NoEnv
    /\ heap = EmptyHeap
    /\ response = NoResponse
    /\ trace = <<>>

\* PERSISTENT STATE of a new session: everything is None.
SessionInit ==
    /\ raw_df = <<>>
    /\ cleaning_plan = <<>>
    /\ cleaned_df = <<>>
    /\ ticked = {}
    /\ posted = <<>>

Init == RunnerInit /\ SessionInit

\* A client sends a request; the event loop holds it until the handler runs.
Receive ==
    /\ alive
    /\ queued < MaxQueue
    /\ queued' = queued + 1
    /\ UNCHANGED <<alive, redefined, stash, oldConc, hostOps, pc,
                   payload, code, df_in, env, heap, response, trace>>
    /\ UNCHANGED appvars

\* Step 1: the handler starts on the next request and deserializes its
\* dataframe_json; a payload read_json cannot read ends the request with an
\* HTTPException(400).
Deserialize(p, c) ==
    /\ alive
    /\ pc = "idle"
    /\ queued > 0
    /\ queued' = queued - 1
    /\ payload' = p
    /\ code' = c
    /\ trace' = <<"deserialize">>
    /\ IF ReadJsonRaises(p)
       THEN /\ pc' = "rejected"
            /\ response' = HTTPException("Failed to deserialize input DataFrame")
            /\ UNCHANGED <<df_in, heap>>
       ELSE /\ pc' = "deserialized"
            /\ df_in' = Frame("in")
            /\ heap' = [heap EXCEPT !["in"] = FromWire(p)]
            /\ UNCHANGED response
    /\ UNCHANGED <<alive, redefined, stash, oldConc, hostOps, env>>
    /\ UNCHANGED appvars

\* Step 1.5: the static security check on the snippet's text.
Guard ==
    /\ pc = "deserialized"
    /\ trace' = Append(trace, "guard")
    /\ IF GuardRejects(code)
       THEN /\ pc' = "responded"
            /\ response' = ExecutionResponse(<<>>, FALSE,
                  <<"Security Violation: Code snippet contains forbidden keyword.">>)
       ELSE /\ pc' = "guarded"
            /\ UNCHANGED response
    /\ UNCHANGED <<queued, alive, redefined, stash, oldConc, hostOps,
                   payload, code, df_in, env, heap>>
    /\ UNCHANGED appvars

\* Step 2: the sandbox is built around a copy of df_in.
Build ==
    /\ pc = "guarded"
    /\ trace' = Append(trace, "build")
    /\ LET b == create_execution_environment(df_in, heap)
       IN  /\ env' = b.env
           /\ heap' = b.heap
    /\ pc' = "built"
    /\ UNCHANGED <<queued, alive, redefined, stash, oldConc, hostOps,
                   payload, code, df_in, response>>
    /\ UNCHANGED appvars

\* except Exception: the classes the handler's except clause catches.
Caught(cls) == cls = "Exception"

\* Step 3: exec runs the snippet in the namespace.  An exception the except
\* clause catches becomes a failure response; any other one leaves the
\* handler and, being a SystemExit, the event loop: the process ends.
Execute ==
    /\ pc = "built"
    /\ trace' = Append(trace, "exec")
    /\ LET st == ExecCode(code, [ns |-> env, heap |-> heap,
                                 redefined |-> redefined, stash |-> stash,
                                 hostOps |-> hostOps, exc |-> "none", msg |-> ""])
       IN  /\ env' = st.ns
           /\ heap' = st.heap
           /\ redefined' = st.redefined
           /\ stash' = st.stash
           /\ hostOps' = st.hostOps
           /\ IF st.exc = "none"
              THEN /\ pc' = "executed"
                   /\ UNCHANGED <<response, alive>>
              ELSE IF Caught(st.exc)
              THEN /\ pc' = "responded"
                   /\ response' = ExecutionResponse(<<>>, FALSE, <<st.msg>>)
                   /\ UNCHANGED alive
              ELSE /\ pc' = "fault"
                   /\ alive' = FALSE
                   /\ UNCHANGED response
    /\ UNCHANGED <<queued, oldConc, payload, code, df_in>>
    /\ UNCHANGED appvars

\* Steps 4 and 5: the value bound to df is read back and serialized; what
\* fails here is caught by the same except clause.
Marshal ==
    /\ pc = "executed"
    /\ trace' = Append(trace, "marshal")
    /\ pc' = "responded"
    /\ IF env.df.kind = "absent"
       THEN response' = ExecutionResponse(<<>>, FALSE, <<"'df'">>)
       ELSE LET j == ToJson(env.df, heap)
            IN  IF j.exc = "none"
                THEN response' = ExecutionResponse(j.json, TRUE, <<>>)
                ELSE response' = ExecutionResponse(<<>>, FALSE,
                        <<"object has no attribute 'to_json'">>)
    /\ UNCHANGED <<queued, alive, redefined, stash, oldConc, hostOps,
                   payload, code, df_in, env, heap>>
    /\ UNCHANGED appvars

\* What outlives the handler's frame: the object np.stash refers to, if it
\* is one of this request's, lives on as "old"; it belongs to a request
\* served concurrently with the next one if that one is already queued.
Leftover ==
    IF stash.ref \in {"in", "cp", "nw"}
    THEN [stash |-> [stash EXCEPT !.ref = "old"], old |-> heap[stash.ref],
          conc |-> queued > 0]
    ELSE [stash |-> stash, old |-> heap["old"], conc |-> FALSE]

\* The handler returns (or its HTTPException is answered): the response goes
\* to the caller and the handler's locals, the namespace among them, are
\* released.
Return ==
    /\ pc \in {"rejected", "responded"}
    /\ pc' = "idle"
    /\ stash' = Leftover.stash
    /\ oldConc' = Leftover.conc
    /\ heap' = [EmptyHeap EXCEPT !["old"] = Leftover.old]
    /\ payload' = Malformed
    /\ code' = <<>>
    /\ df_in' = Absent
    /\ env' = NoEnv
    /\ response' = NoResponse
    /\ trace' = <<>>
    /\ UNCHANGED <<queued, alive, redefined, hostOps>>

\* The response reaches a client other than the session modelled here.
ReturnToClient == Return /\ UNCHANGED appvars

Next ==
    \/ Receive
    \/ \E p \in Payloads, c \in Snippets : Deserialize(p, c)
    \/ Guard
    \/ Build
    \/ Execute
    \/ Marshal
    \/ ReturnToClient

Spec == Init /\ [][Next]_vars

(***************************************************************************)
(* The presentation layer: one Streamlit session (src/app.py)              *)
(***************************************************************************)
MaxSteps == 2

\* The code the planner's steps carry, one statement per step.
PlanStmts ==
    {"fillna", "divzero", "import", "sysexit", "duck"}

\* plan.proposed_plan: the steps in the planner's order, each with its own
\* step_id.
PlanOf(q) ==
    [i \in 1..Len(q) |-> [step_id |-> i, code_snippet |-> q[i]]]

Plans == {PlanOf(q) : q \in UNION {[1..n -> PlanStmts] : n \in 0..MaxSteps}}

\* A form that sends every step, ticked or not.
SelectedAll(plan, t) == plan

\* selected: the steps whose checkbox is ticked, appended in a loop over the
\* plan.
Selected(plan, t) == SelectSeq(plan, LAMBDA step : step.step_id \in t)

\* "\n".join([s.code_snippet for s in selected]): the snippets, one per line.
JoinCode(sel) == [k \in 1..Len(sel) |-> sel[k].code_snippet]

\* pd.read_csv(uploaded_file): the datasets a CSV can hold; its text cells
\* stay text.
Uploads == Datasets \cup {DateData}

\* The sidebar: a CSV is uploaded; a dataset that differs from raw_df
\* replaces it and resets the plan and the result.
Upload(d) ==
    /\ posted = <<>>
    /\ IF raw_df = <<>> THEN TRUE ELSE raw_df[1] # d
    /\ raw_df' = <<d>>
    /\ cleaning_plan' = <<>>
    /\ cleaned_df' = <<>>
    /\ UNCHANGED <<ticked, posted>>
    /\ UNCHANGED <<queued, alive, redefined, stash, oldConc, hostOps, pc,
                   payload, code, df_in, env, heap, response, trace>>

\* "Analyze Data": enabled while there is no plan; the planner's answer
\* becomes the plan.
Analyze(plan) ==
    /\ posted = <<>>
    /\ raw_df # <<>>
    /\ cleaning_plan = <<>>
    /\ cleaning_plan' = <<plan>>
    /\ UNCHANGED <<raw_df, cleaned_df, ticked, posted>>
    /\ UNCHANGED <<queued, alive, redefined, stash, oldConc, hostOps, pc,
                   payload, code, df_in, env, heap, response, trace>>

\* The approval form is shown for a plan with steps while cleaned_df is None.
FormAvailable ==
    /\ raw_df # <<>>
    /\ cleaning_plan # <<>>
    /\ cleaning_plan[1] # <<>>
    /\ cleaned_df = <<>>

\* "Run Approved Cleaning": the code of the ticked steps and the dataset are
\* posted to the runner, and the script waits for the answer.
Submit(t) ==
    /\ posted = <<>>
    /\ FormAvailable
    /\ t \subseteq 1..Len(cleaning_plan[1])
    /\ alive
    /\ queued = 0
    /\ queued' = 1
    /\ ticked' = t
    /\ posted' = <<[dataframe_json |-> ToWire(raw_df[1]),
                    code_snippet |-> JoinCode(Selected(cleaning_plan[1], t))]>>
    /\ UNCHANGED <<raw_df, cleaning_plan, cleaned_df>>
    /\ UNCHANGED <<alive, redefined, stash, oldConc, hostOps, pc,
                   payload, code, df_in, env, heap, response, trace>>

\* The handler starts on the request the app posted.
HandlePosted ==
    /\ posted # <<>>
    /\ Deserialize(posted[1].dataframe_json, posted[1].code_snippet)

\* pd.read_json(res["cleaned_dataframe_json"], orient="records") raises when
\* the field is None; a list of plain values reads as a one-column frame.
ReadResult(res) ==
    IF res.cleaned = <<>> THEN [exc |-> TRUE, df |-> NoData]
    ELSE [exc |-> FALSE, df |-> FromWire(res.cleaned[1])]

\* A script that stores whatever the answer holds, successful or not.
DeliverIgnoringSuccess ==
    /\ posted # <<>>
    /\ Return
    /\ posted' = <<>>
    /\ ticked' = {}
    /\ cleaned_df' = <<ReadResult(response).df>>
    /\ UNCHANGED <<raw_df, cleaning_plan>>

\* The answer arrives: with success set the result becomes cleaned_df (unless
\* reading it raises); otherwise the error is shown and the state stays.
Deliver ==
    /\ posted # <<>>
    /\ Return
    /\ posted' = <<>>
    /\ ticked' = {}
    /\ IF response.success = <<TRUE>> /\ ~ReadResult(response).exc
       THEN cleaned_df' = <<ReadResult(response).df>>
       ELSE UNCHANGED cleaned_df
    /\ UNCHANGED <<raw_df, cleaning_plan>>

\* The runner process ended while the app was waiting: requests.post raises
\* and the script run ends there.
ConnectionLost ==
    /\ posted # <<>>
    /\ pc = "fault"
    /\ posted' = <<>>
    /\ ticked' = {}
    /\ UNCHANGED <<raw_df, cleaning_plan, cleaned_df>>
    /\ UNCHANGED <<queued, alive, redefined, stash, oldConc, hostOps, pc,
                   payload, code, df_in, env, heap, response, trace>>

\* "Start New Session": st.session_state.clear().
StartNewSession ==
    /\ posted = <<>>
    /\ raw_df # <<>>
    /\ cleaned_df # <<>>
    /\ raw_df' = <<>>
    /\ cleaning_plan' = <<>>
    /\ cleaned_df' = <<>>
    /\ UNCHANGED <<ticked, posted>>
    /\ UNCHANGED <<queued, alive, redefined, stash, oldConc, hostOps, pc,
                   payload, code, df_in, env, heap, response, trace>>

AppNext ==
    \/ \E d \in Uploads : Upload(d)
    \/ \E plan \in Plans : Analyze(plan)
    \/ \E t \in SUBSET (1..MaxSteps) : Submit(t)
    \/ HandlePosted
    \/ Guard
    \/ Build
    \/ Execute
    \/ Marshal
    \/ Deliver
    \/ ConnectionLost
    \/ StartNewSession

SpecApp == Init /\ [][AppNext]_vars

(***************************************************************************)
(* Properties                                                              *)
(***************************************************************************)
Lexemes(c) == {CodeText(c)[i] : i \in 1..Len(CodeText(c))}

\* The snippet's text holds "import " or "__".
HasForbiddenKeyword(c) ==
    \/ Contains(CodeText(c), <<"import", " ">>)
    \/ Contains(CodeText(c), <<"_", "_">>)

\* C1 (guard-before-execute): a request whose snippet holds a denylisted
\* pattern never has exec invoked for it, and the response it gets is a
\* failure without a dataset.
GuardBeforeExecute ==
    (pc # "idle" /\ HasForbiddenKeyword(code)) =>
        /\ ~InTrace("exec")
        /\ pc = "responded" =>
              (response.success = <<FALSE>> /\ response.cleaned = <<>>)

GuardRejectionReached ==
    /\ pc = "responded"
    /\ InTrace("guard")
    /\ HasForbiddenKeyword(code)
    /\ response.success = <<FALSE>>

\* C2 (isolation): executed code never performs an operation on the host
\* that is outside the capability set.
Isolation == hostOps = {}

\* C3 (read-only capability table): whenever a sandbox has just been built,
\* what the handles bound in it expose is what it was at process start:
\* nothing was redefined and nothing was added by an earlier execution.
CapabilityTableReadOnly ==
    pc = "built" => (redefined = {} /\ stash = Absent)

\* C4 (driver boundary): every failure raised while the snippet executes is
\* turned into a structured response; none leaves the handler or ends the
\* process.
DriverCatchesEveryFailure ==
    InTrace("exec") => (alive /\ pc \in {"executed", "responded"})

\* C5 (exactly one variant): a response of execute_cleaning_code carries the
\* dataset and no error_message iff success is true, and an error_message and
\* no dataset iff success is false.
ExactlyOneVariant ==
    pc = "responded" =>
        \/ /\ response.success = <<TRUE>>
           /\ response.cleaned # <<>>
           /\ response.error = <<>>
        \/ /\ response.success = <<FALSE>>
           /\ response.cleaned = <<>>
           /\ response.error # <<>>

\* C6 (deserialization first): for a request whose payload cannot be
\* deserialized neither the static guard nor the sandbox builder nor exec
\* ever runs, whatever its snippet is.
MalformedNeverReachesSandbox ==
    (pc # "idle" /\ payload = Malformed) =>
        /\ ~InTrace("guard")
        /\ ~InTrace("build")
        /\ ~InTrace("exec")
        /\ ~env.built

MalformedRejectedReached ==
    /\ pc = "rejected"
    /\ payload = Malformed
    /\ HasForbiddenKeyword(code)
    /\ trace = <<"deserialize">>

\* C7 (client error): a payload that cannot be deserialized is answered with
\* status 400 and a message, not with a server fault and not with a 200
\* response that has success set.
DeserializationFailureIs400 ==
    (pc # "idle" /\ payload = Malformed) =>
        /\ pc = "rejected"
        /\ response.status = 400
        /\ response.detail # <<>>
        /\ response.success = <<>>

ClientErrorReached ==
    /\ pc = "rejected"
    /\ response.status = 400
    /\ Len(response.detail) = 1

MinimumDenylisted(c) ==
    LET t == CodeText(c) IN
    \/ "import" \in Lexemes(c)
    \/ Contains(t, <<"_", "_">>)
    \/ \E i \in 1..Len(t) :
          /\ t[i] \in {"eval", "exec", "open", "os"}
          /\ (i > 1 => t[i - 1] # ".")

\* C9 (minimum denylist): no snippet holding a minimum denylist pattern
\* passes the static guard.
GuardRejectsMinimumDenylist ==
    InTrace("guard") /\ MinimumDenylisted(code) =>
        pc = "responded" /\ ~InTrace("build")

\* C10 (nothing shared): the namespace of the request being handled never
\* binds an object that belongs to a request served concurrently with it.
NoSharedContext ==
    ~(oldConc /\ env.built /\ HasData(env.df) /\ env.df.ref = "old")

\* C11 (empty plan identity): when the form is submitted with no step
\* approved, the answer is a success and the dataset the session receives
\* equals the dataset it sent.
EmptyPlanIdentity ==
    [][(posted # <<>> /\ ticked = {} /\ posted' = <<>>) =>
          /\ response.success = <<TRUE>>
          /\ cleaned_df' = raw_df]_vars

\* C12 (short circuit): when the form is submitted with no step approved,
\* the handler serving that request never reaches exec.
EmptyPlanSkipsDriver ==
    posted # <<>> /\ ticked = {} => ~InTrace("exec")

(***************************************************************************)
(* The wire form on its own: to_json followed by read_json                 *)
(***************************************************************************)
MaxWireRows == 2

WireColLists == {<<"a">>, <<"a", "b">>, <<"b", "a">>, <<"date">>}

WireCells == {"v1", IsoText, NA}

WireDatasets ==
    UNION {{[cols |-> c, rows |-> r] :
              r \in UNION {[1..n -> [1..Len(c) -> WireCells]] :
                             n \in 0..MaxWireRows}} : c \in WireColLists}

WireInit ==
    /\ RunnerInit
    /\ raw_df \in {<<d>> : d \in WireDatasets}
    /\ cleaning_plan = <<>>
    /\ cleaned_df = <<>>
    /\ ticked = {}
    /\ posted = <<>>

\* df.to_json(orient="records"): the dataset is put on the wire.
Serialize ==
    /\ posted = <<>>
    /\ cleaned_df = <<>>
    /\ posted' = <<[dataframe_json |-> ToWire(raw_df[1]), code_snippet |-> <<>>]>>
    /\ UNCHANGED <<raw_df, cleaning_plan, cleaned_df, ticked>>
    /\ UNCHANGED <<queued, alive, redefined, stash, oldConc, hostOps, pc,
                   payload, code, df_in, env, heap, response, trace>>

\* pd.read_json(..., orient="records"): the wire form is read back.
ReadBack ==
    /\ posted # <<>>
    /\ ~ReadJsonRaises(posted[1].dataframe_json)
    /\ cleaned_df' = <<FromWire(posted[1].dataframe_json)>>
    /\ posted' = <<>>
    /\ UNCHANGED <<raw_df, cleaning_plan, ticked>>
    /\ UNCHANGED <<queued, alive, redefined, stash, oldConc, hostOps, pc,
                   payload, code, df_in, env, heap, response, trace>>

WireNext == Serialize \/ ReadBack

SpecWire == WireInit /\ [][WireNext]_vars

\* C13 (round trip): a dataset read back from its own wire form is the
\* dataset that was written: same columns in the same order, same cells,
\* missing cells still missing, zero-row datasets included.
RoundTripExact ==
    cleaned_df # <<>> => cleaned_df = raw_df

\* C14 (fresh namespace): the namespace handed to exec holds a copy of the
\* input dataset under df, the builtins and the three handles, and nothing
\* else; and, before exec has run, nothing the code of an earlier request
\* has bound can be reached from it: neither a name of its own nor an
\* attribute of a handle.
FreshNamespace ==
    pc = "built" =>
        /\ env = [built |-> TRUE, df |-> Frame("cp"), extra |-> {}]
        /\ heap["cp"] = heap["in"]
        /\ GlobalNames(env) = {"__builtins__", "pd", "np", "scipy", "df"}
        /\ stash.kind = "absent"
        /\ redefined = {}

\* C15 (read back): a success that carries a dataset carries the value df is
\* bound to when the code has finished.  A frame changed in place
\* (df.fillna(..., inplace=True)) and a df bound to a new frame
\* (df = df.dropna()) both show in the result.
ResultIsFinalBinding ==
    response.success = <<TRUE>> /\ HasData(env.df) =>
        /\ env.df.kind = "frame" =>
              response.cleaned = <<ToWire(heap[env.df.ref])>>
        /\ env.df.kind = "series" =>
              response.cleaned = <<SeriesWire(heap[env.df.ref])>>
        /\ code = <<"fillna">> =>
              response.cleaned = <<ToWire(FillNa(FromWire(payload)))>>
        /\ code = <<"dropna">> =>
              response.cleaned = <<ToWire(DropNa(FromWire(payload)))>>

\* A frame with a missing cell was changed in place, and the result differs
\* from what the request carried.
MutationReturned ==
    /\ response.success = <<TRUE>>
    /\ code = <<"fillna">>
    /\ env.df = Frame("cp")
    /\ response.cleaned # <<payload>>
    /\ response.cleaned = <<ToWire(heap["cp"])>>

\* C16 (composition): the code posted to the runner is the code of exactly
\* the ticked steps, each once, in plan order: the step at position i of the
\* plan, if ticked, supplies the line whose number is the count of ticked
\* steps up to i, and there are no other lines.
ComposedFromApproved ==
    posted # <<>> /\ cleaning_plan # <<>> =>
        LET plan == cleaning_plan[1]
            sent == posted[1].code_snippet
        IN  /\ ticked \subseteq 1..Len(plan)
            /\ Len(sent) = Cardinality(ticked)
            /\ \A i \in ticked :
                  sent[Cardinality({j \in ticked : j <= i})] = plan[i].code_snippet

\* The second step was approved without the first, and the request went
\* through to exec.
LaterStepAloneRuns ==
    /\ posted # <<>>
    /\ Len(cleaning_plan[1]) = 2
    /\ ticked = {2}
    /\ cleaning_plan[1][1].code_snippet # cleaning_plan[1][2].code_snippet
    /\ posted[1].code_snippet = <<cleaning_plan[1][2].code_snippet>>
    /\ InTrace("exec")

\* C17 (no dataset left): when the code has finished without raising and df
\* is unbound or bound to something that is not tabular data, the answer is
\* a failure: success false, an error message, no dataset.
MissingDatasetIsFailure ==
    pc = "responded" /\ InTrace("marshal") /\ ~HasData(env.df) =>
        /\ response.status = 200
        /\ response.success = <<FALSE>>
        /\ response.error # <<>>
        /\ response.cleaned = <<>>

\* C18 (session result): cleaned_df goes from empty to set only when an
\* answer with success true is taken in; when an answer without it is taken
\* in, cleaned_df stays empty and the form stays available; a request is sent
\* only while cleaned_df is empty, and cleaned_df is emptied only by a reset
\* or by the upload of a different dataset.
CleanedOnlyOnSuccess ==
    [][/\ (cleaned_df = <<>> /\ cleaned_df' # <<>>) =>
             /\ posted # <<>>
             /\ response.status = 200
             /\ response.success = <<TRUE>>
       /\ (posted # <<>> /\ posted' = <<>> /\ response.success # <<TRUE>>) =>
             /\ cleaned_df' = <<>>
             /\ FormAvailable'
       /\ (posted = <<>> /\ posted' # <<>>) => cleaned_df = <<>>
       /\ (cleaned_df # <<>> /\ cleaned_df' # cleaned_df) =>
             /\ cleaned_df' = <<>>
             /\ raw_df' # raw_df]_vars

\* A run has succeeded and its answer was taken in: the result is set, it
\* differs from the raw dataset and no request is under way.
ResultStored ==
    /\ cleaned_df # <<>>
    /\ posted = <<>>
    /\ cleaned_df # raw_df
    /\ hostOps = {}
    /\ alive

====
